---- MODULE Spec2Model ----
(***************************************************************************)
(* durable-apis: the caller-side stub (Proxy get trap, stubFetch retry     *)
(* loop, request encoding), the resolver's identifier resolution, the      *)
(* actor-side request router of createDurable, and the tagged websocket    *)
(* layer of durableWS.                                                     *)
(*                                                                         *)
(* Strings the code inspects (URLs, error texts) are sequences of tokens,  *)
(* so startsWith is a prefix test and RegExp.test a search for a pattern   *)
(* token.  JS values that cross the wire are small tagged strings.         *)
(***************************************************************************)
EXTENDS Integers, Sequences, FiniteSets, TLC

VARIABLES
  methods,    \* stub side: own entries of the per-stub memo table `methods`
  nextFn,     \* stub side: identity of the next closure the get trap creates
  lastGet,    \* stub side: what the most recent property access returned
  firstGet,   \* history: the invoker the first access of each name returned
  calls,      \* stub side: the logical calls (each one promise chain)
  probe,      \* retry policy applied to a free-standing (err, retries) pair
  api,        \* actor side: the object the actor's init function returned
  served,     \* actor side: the request fetch handled last and what came of it
  resolved,   \* resolver: the last get(id, options) and the namespace calls it made
  minted,     \* resolver: how many ids namespace.newUniqueId has minted
  uniqueUsed, \* history: the minted ids earlier get calls passed on
  namespace,  \* resolver: the namespace binding: its get and the extension marker
  handle,     \* resolver: the handle the last get or getDurable returned
  registry,   \* websocket layer: the accepted connections, in order of acceptance
  lastOp      \* websocket layer: the last upgrade, sendTo or close and its effect

proxyVars == <<methods, nextFn, lastGet, firstGet>>
stubVars == <<methods, nextFn, lastGet, firstGet, calls>>
routerVars == <<api, served>>
resolverVars == <<resolved, minted, uniqueUsed, namespace, handle>>
wsVars == <<registry, lastOp>>
vars == <<methods, nextFn, lastGet, firstGet, calls, probe, api, served,
          resolved, minted, uniqueUsed, namespace, handle, registry, lastOp>>

----------------------------------------------------------------------------
(* Bounds *)

\* longest argument list a caller passes
MaxArgs == 2
\* largest attempt count the retry policy is probed with
MaxProbe == 13
\* logical calls that may be in flight together
NumCalls == 2
\* most path segments of an inbound request URL
MaxSegments == 2
\* most unique ids the namespace mints
MaxMinted == 3
\* longest tag list given to sendTo and close or returned by getTags
MaxTags == 2
\* most connections accepted at a time
MaxConns == 2

----------------------------------------------------------------------------
(* Constants of the program *)

\* const URL = 'https://durable/'
URL == <<"https:", "//", "durable", "/">>

maxRetries == 10

\* the alternatives of the retryOn regular expression
retryOn ==
  { "Network connection lost",
    "Cannot resolve Durable Object due to transient issue on remote node",
    "Durable Object reset because its code was updated",
    "The Durable Object's code has been updated" }

----------------------------------------------------------------------------
(* Strings *)

StartsWith(s, p) ==
  /\ Len(p) <= Len(s)
  /\ \A i \in 1..Len(p) : s[i] = p[i]

\* RegExp.prototype.test for an unanchored alternation of literals
RegExpTest(patterns, s) == \E i \in 1..Len(s) : s[i] \in patterns

----------------------------------------------------------------------------
(* Errors a rejected promise may carry *)

Errors ==
  { "lost", "transient", "reset", "updated", "lostInTypeError",
    "denied", "lowercaseLost", "emptyString" }

\* err + '': Error objects print as "<name>: <message>", thrown strings as is
StringOf(err) ==
  CASE err = "lost"            -> <<"Error", ": ", "Network connection lost", ".">>
    [] err = "transient"       -> <<"Error", ": ",
          "Cannot resolve Durable Object due to transient issue on remote node", ".">>
    [] err = "reset"           -> <<"Error", ": ",
          "Durable Object reset because its code was updated", ".">>
    [] err = "updated"         -> <<"The Durable Object's code has been updated">>
    [] err = "lostInTypeError" -> <<"TypeError", ": ", "fetch failed", ": ",
                                    "Network connection lost">>
    [] err = "denied"          -> <<"Error", ": ", "permission denied">>
    [] err = "lowercaseLost"   -> <<"Error", ": ", "network connection lost">>
    [] err = "emptyString"     -> << >>
    [] OTHER                   -> <<"Error", ": ", "wrapped", ": ", err>>

shouldRetry_NoCap(err, retries) == RegExpTest(retryOn, StringOf(err))

shouldRetry_GreaterEqual(err, retries) ==
  IF retries >= maxRetries THEN FALSE
  ELSE RegExpTest(retryOn, StringOf(err))

shouldRetry(err, retries) ==
  IF retries > maxRetries THEN FALSE
  ELSE RegExpTest(retryOn, StringOf(err))

\* Math.pow(2, retries) * 10
BackoffDelay_Capped(retries) ==
  IF (2 ^ retries) * 10 > 5000 THEN 5000 ELSE (2 ^ retries) * 10

BackoffDelay(retries) == (2 ^ retries) * 10

----------------------------------------------------------------------------
(* Wire codec *)

\* JS values a caller passes as arguments
Values == { "n1", "sx", "undef" }

RECURSIVE SeqsUpTo(_, _)
SeqsUpTo(S, n) ==
  IF n = 0 THEN { << >> }
  ELSE LET shorter == SeqsUpTo(S, n - 1)
       IN  shorter \cup { Append(s, x) : s \in { t \in shorter : Len(t) = n - 1 }, x \in S }

ArgLists == SeqsUpTo(Values, MaxArgs)

\* JSON text of one array element: undefined becomes null inside an array
JsonElement(v) ==
  CASE v = "n1"    -> "1"
    [] v = "sx"    -> "\"x\""
    [] v = "undef" -> "null"

\* JSON.stringify of an argument list: the elements' texts, in order
JSONstringify(content) == [ i \in 1..Len(content) |-> JsonElement(content[i]) ]

NoRequest == [ url |-> << >>, method |-> "", contentType |-> "", body |-> << >> ]

createRequest_Reversed(prop, content) ==
  [ url         |-> URL \o <<prop>>,
    method      |-> "POST",
    contentType |-> "application/json",
    body        |-> [ i \in 1..Len(content) |->
                        JsonElement(content[Len(content) + 1 - i]) ] ]

createRequest(prop, content) ==
  [ url         |-> URL \o <<prop>>,
    method      |-> "POST",
    contentType |-> "application/json",
    body        |-> JSONstringify(content) ]

\* requests a caller hands to the stub's own fetch
RawRequests ==
  { [ url |-> <<"https:", "//", "example.com", "/", "page">>, method |-> "GET",
      contentType |-> "", body |-> << >> ] }

\* responses the transport may resolve a send with
Responses == { "json", "text", "unreadable", "error500" }

\* response.text(): the body, or a throw when the body cannot be read
TextReadable(response) == response # "unreadable"

ResponseText(response) ==
  CASE response = "json"     -> "{\"ok\":true}"
    [] response = "text"     -> "plain text"
    [] response = "error500" -> "{\"status\":500,\"error\":\"Network connection lost\"}"
    [] OTHER                 -> ""

\* JSON.parse succeeds on these texts
JsonTexts ==
  { "{\"ok\":true}", "{\"status\":500,\"error\":\"Network connection lost\"}" }

NoValue == [ kind |-> "none", v |-> "" ]

\* without the outer try: an unreadable body makes the decoder throw
transformResponse_NoOuterCatch(response) ==
  IF TextReadable(response)
  THEN IF ResponseText(response) \in JsonTexts
       THEN [ kind |-> "parsed", v |-> ResponseText(response) ]
       ELSE [ kind |-> "text", v |-> ResponseText(response) ]
  ELSE [ kind |-> "threw", v |-> response ]

transformResponse(response) ==
  IF TextReadable(response)
  THEN IF ResponseText(response) \in JsonTexts
       THEN [ kind |-> "parsed", v |-> ResponseText(response) ]
       ELSE [ kind |-> "text", v |-> ResponseText(response) ]
  ELSE [ kind |-> "response", v |-> response ]

----------------------------------------------------------------------------
(* Stub proxy *)

\* names inherited from Object.prototype by every plain object
ObjectPrototype == { "toString" }

\* own properties of the transport handle (DurableObjectStub)
HandleOwn == { "fetch", "id", "name" }

\* names a caller may read on the stub
PropNames == { "add", "increment", "fetch", "id", "toString" }

\* prop in methods / prop in obj: own or inherited
InMethods(m, prop) == prop \in DOMAIN m \/ prop \in ObjectPrototype
InHandle(prop) == prop \in HandleOwn \/ prop \in ObjectPrototype

\* const methods = { fetch: (...args) => stub.fetch(...args) }
InitialMethods == [ p \in {"fetch"} |-> [ kind |-> "passthrough", prop |-> "fetch", fn |-> 0 ] ]

\* (...args) => stubFetch(obj, prop, args), a closure created now
NewInvoker(prop, fn) == [ kind |-> "rpc", prop |-> prop, fn |-> fn ]

\* methods[prop] = invoker
MemoStore_Forget(m, prop, invoker) == m

MemoStore(m, prop, invoker) ==
  [ q \in DOMAIN m \cup {prop} |-> IF q = prop THEN invoker ELSE m[q] ]

\* the value the get trap returns for prop, with the memo table m
GetTrapValue(m, prop, fn) ==
  IF InMethods(m, prop)
  THEN IF prop \in DOMAIN m THEN m[prop]
       ELSE [ kind |-> "builtin", prop |-> prop, fn |-> 0 ]
  ELSE IF InHandle(prop)
       THEN [ kind |-> "native", prop |-> prop, fn |-> 0 ]
       ELSE NewInvoker(prop, fn)

\* the memo table after the get trap ran for prop
GetTrapMethods(m, prop, fn) ==
  IF InMethods(m, prop) \/ InHandle(prop) THEN m
  ELSE MemoStore(m, prop, NewInvoker(prop, fn))

NoGet == [ kind |-> "none", prop |-> "", fn |-> 0 ]

----------------------------------------------------------------------------
(* Logical calls on the stub *)

CallIds == 1..NumCalls

IdleCall ==
  [ pc      |-> "idle",      \* idle, sending, backoff, resolved, rejected
    kind    |-> "none",      \* rpc: through stubFetch; passthrough: the stub's fetch
    prop    |-> "",
    content |-> << >>,       \* the argument list of an rpc call
    retries |-> 0,           \* stubFetch's retries parameter
    wire    |-> << >>,       \* requests handed to the handle's native fetch
    err     |-> "none",      \* what the most recent failed send rejected with
    delay   |-> 0,           \* the setTimeout delay being waited for
    value   |-> NoValue,     \* what the call resolved with
    reason  |-> "none" ]     \* what the call rejected with

\* return Promise.reject(err)
RejectWith_Wrapped(err) == "wrapped"

RejectWith(err) == err

\* the retries parameter of the stubFetch activation serving call c
RetriesParam_Shared(cs, c) ==
  CHOOSE n \in { cs[d].retries : d \in DOMAIN cs } :
    \A d \in DOMAIN cs : cs[d].retries <= n

RetriesParam(cs, c) == cs[c].retries

\* setTimeout(resolve, ...) is pending for call c: firing it resolves the
\* promise whose then() runs stubFetch again
TimerPending_NeverResolves(cs, c) == FALSE

TimerPending(cs, c) == cs[c].pc = "backoff"

\* stub[prop]: the Proxy get trap
Get(prop) ==
  /\ lastGet' = GetTrapValue(methods, prop, nextFn)
  /\ methods' = GetTrapMethods(methods, prop, nextFn)
  /\ nextFn' = IF lastGet'.kind = "rpc" /\ lastGet'.fn = nextFn THEN nextFn + 1 ELSE nextFn
  /\ firstGet' = IF lastGet'.kind = "rpc" /\ firstGet[prop] = NoGet
                 THEN [ firstGet EXCEPT ![prop] = lastGet' ]
                 ELSE firstGet

\* stub.prop(...content): the get trap, then the invoker it returned runs
\* stubFetch(obj, prop, content) with retries = 0, which sends at once
StubCall(c, prop, content) ==
  /\ calls[c].pc = "idle"
  /\ Get(prop)
  /\ lastGet'.kind = "rpc"
  /\ calls' = [ calls EXCEPT ![c] =
       [ IdleCall EXCEPT !.pc = "sending", !.kind = "rpc", !.prop = lastGet'.prop,
                         !.content = content,
                         !.wire = << createRequest(lastGet'.prop, content) >> ] ]
  /\ UNCHANGED <<probe, routerVars, resolverVars, wsVars>>

\* stub.fetch(request): methods.fetch forwards to the handle's own fetch
StubFetchPassthrough(c, request) ==
  /\ calls[c].pc = "idle"
  /\ Get("fetch")
  /\ lastGet'.kind = "passthrough"
  /\ calls' = [ calls EXCEPT ![c] =
       [ IdleCall EXCEPT !.pc = "sending", !.kind = "passthrough", !.prop = "fetch",
                         !.wire = << request >> ] ]
  /\ UNCHANGED <<probe, routerVars, resolverVars, wsVars>>

\* a bare property read, nothing invoked
ReadProperty(prop) ==
  /\ Get(prop)
  /\ UNCHANGED <<calls, probe, routerVars, resolverVars, wsVars>>

\* obj.fetch(...) resolves: .then(transformResponse)
SendResolves(c, response) ==
  /\ calls[c].pc = "sending"
  /\ calls' = [ calls EXCEPT ![c].pc = "resolved",
                             ![c].value = IF calls[c].kind = "rpc"
                                          THEN transformResponse(response)
                                          ELSE [ kind |-> "response", v |-> response ] ]
  /\ UNCHANGED <<proxyVars, probe, routerVars, resolverVars, wsVars>>

\* obj.fetch(...) rejects: the .catch handler of stubFetch
SendRejects(c, err) ==
  /\ calls[c].pc = "sending"
  /\ calls' = [ calls EXCEPT ![c] =
       IF calls[c].kind = "passthrough"
       THEN [ @ EXCEPT !.pc = "rejected", !.err = err, !.reason = err ]
       ELSE IF ~ shouldRetry(err, RetriesParam(calls, c))
            THEN [ @ EXCEPT !.pc = "rejected", !.err = err, !.reason = RejectWith(err) ]
            ELSE [ @ EXCEPT !.pc = "backoff", !.err = err,
                            !.delay = BackoffDelay(RetriesParam(calls, c)) ] ]
  /\ UNCHANGED <<proxyVars, probe, routerVars, resolverVars, wsVars>>

\* the backoff timer fires: stubFetch(obj, prop, content, retries + 1)
TimerFires(c) ==
  /\ TimerPending(calls, c)
  /\ calls' = [ calls EXCEPT ![c].pc = "sending",
                             ![c].retries = RetriesParam(calls, c) + 1,
                             ![c].delay = 0,
                             ![c].wire = Append(@, createRequest(calls[c].prop, calls[c].content)) ]
  /\ UNCHANGED <<proxyVars, probe, routerVars, resolverVars, wsVars>>

\* errors the transport rejects a send with
SendErrors == { "lost", "reset", "denied" }

----------------------------------------------------------------------------
(* Retry policy on its own *)

NoProbe == [ err |-> "none", retries |-> 0, answer |-> FALSE ]

Probe(err, retries) ==
  /\ probe' = [ err |-> err, retries |-> retries, answer |-> shouldRetry(err, retries) ]
  /\ UNCHANGED <<stubVars, routerVars, resolverVars, wsVars>>

----------------------------------------------------------------------------
(* Request router inside the actor: createDurable *)

\* names a request path may carry
PathNames == { "add", "counter", "missing", "fetch", "alarm", "toString" }

\* how an invoked function of the actor ends
Behaviours == { "value", "response", "nullish", "throws" }

\* the actor's api object: own properties with typeof "function" or not;
\* fetch and alarm are optional
ApiObject(hasFetch, hasAlarm) ==
  [ functions |-> {"add"} \cup (IF hasFetch THEN {"fetch"} ELSE {})
                          \cup (IF hasAlarm THEN {"alarm"} ELSE {}),
    data      |-> {"counter"} ]

\* before the actor is constructed
NoApi == [ functions |-> {}, data |-> {} ]

\* typeof api[prop]: own properties first, then Object.prototype
TypeOf(a, prop) ==
  IF prop \in a.functions THEN "function"
  ELSE IF prop \in a.data THEN "number"
  ELSE IF prop \in ObjectPrototype THEN "function"
  ELSE "undefined"

\* request URLs: an origin, then path segments joined by "/"
Origins ==
  { <<"https:", "//", "durable", "/">>,
    <<"http:", "//", "durable", "/">>,
    <<"https:", "//", "durable.example.com", "/">> }

RECURSIVE JoinPath(_)
JoinPath(segments) ==
  IF Len(segments) = 0 THEN << >>
  ELSE IF Len(segments) = 1 THEN segments
  ELSE <<Head(segments), "/">> \o JoinPath(Tail(segments))

\* names used in paths of several segments
NestedNames == { "add", "missing" }

Paths ==
  { << >> } \cup { <<n>> : n \in PathNames }
            \cup { JoinPath(segs) : segs \in SeqsUpTo(NestedNames, MaxSegments) }

\* request bodies: a JSON array of arguments, or nothing withContent can parse
Bodies == { <<"1", "null">>, <<"not json">> }

InboundRequests ==
  { [ url |-> o \o path, method |-> mth, contentType |-> "application/json", body |-> b ] :
      o \in Origins, path \in Paths, mth \in {"POST", "GET"}, b \in Bodies }

\* request.url.startsWith(URL)
IsInternal_HostOnly(request) == Len(request.url) >= 3 /\ request.url[3] = "durable"

IsInternal(request) == StartsWith(request.url, URL)

\* the pathname of an internal URL: the tokens after the origin
Pathname(request) == SubSeq(request.url, Len(URL) + 1, Len(request.url))

\* Router().post('/:prop', ...): POST and a pathname of exactly one segment
RouteMatches(request) ==
  /\ request.method = "POST"
  /\ Len(Pathname(request)) = 1
  /\ Pathname(request)[1] # "/"

\* request.params.prop
RouteProp(request) == Pathname(request)[1]

\* withContent: request.content is the parsed JSON body, undefined otherwise
ContentIterable(request) == request.body # <<"not json">>

NoMessage == << >>

\* itty-router-extras error(status, message) and json(data): a Response
ErrorResponse(status, message) ==
  [ kind |-> "response", status |-> status, message |-> message ]

OkResponse == [ kind |-> "response", status |-> 200, message |-> NoMessage ]

\* new StatusError(500, `Durable Object does not contain method ${prop}()`)
MissingMethodMessage(prop) == <<"Durable Object does not contain method ", prop, "()">>

CannotHandle == ErrorResponse(500, <<"Durable Object cannot handle request">>)

\* what the code of the actor throws, with its status (0: none) and message
ActorError == [ status |-> 0, message |-> <<"actor failed">> ]

\* the router's post handler for prop: the method check
MethodCallable_Unchecked(a, prop) == TRUE

MethodCallable(a, prop) == TypeOf(a, prop) = "function"

\* the router's post handler, with what the invoked function does:
\* the functions invoked, and the response or the error thrown
PostHandler(a, request, behaviour) ==
  LET prop == RouteProp(request) IN
    IF ~ MethodCallable(a, prop)
    THEN [ invoked |-> << >>, threw |-> TRUE,
           error |-> [ status |-> 500, message |-> MissingMethodMessage(prop) ] ]
    ELSE IF prop # "fetch" /\ ~ ContentIterable(request)
    THEN [ invoked |-> << >>, threw |-> TRUE,
           error |-> [ status |-> 0, message |-> <<"content is not iterable">> ] ]
    ELSE IF behaviour = "throws"
    THEN [ invoked |-> <<prop>>, threw |-> TRUE, error |-> ActorError ]
    ELSE [ invoked |-> <<prop>>, threw |-> FALSE, error |-> ActorError ]

\* router.handle(request).catch(err => error(err.status || 500, err.message))
RouterHandle(a, request, behaviour) ==
  IF ~ RouteMatches(request)
  THEN [ route |-> "router", invoked |-> << >>, outcome |-> [ kind |-> "undefined",
         status |-> 0, message |-> NoMessage ] ]
  ELSE LET h == PostHandler(a, request, behaviour) IN
    [ route   |-> "router",
      invoked |-> h.invoked,
      outcome |-> IF h.threw
                  THEN ErrorResponse(IF h.error.status # 0 THEN h.error.status ELSE 500,
                                     h.error.message)
                  ELSE OkResponse ]

\* api.fetch?.(request) ?? error(500, 'Durable Object cannot handle request')
ExternalHandle(a, request, behaviour) ==
  IF TypeOf(a, "fetch") # "function"
  THEN [ route |-> "fixed500", invoked |-> << >>, outcome |-> CannotHandle ]
  ELSE IF behaviour = "throws"
  THEN [ route |-> "apiFetch", invoked |-> <<"fetch">>,
         outcome |-> [ kind |-> "threw", status |-> 0, message |-> ActorError.message ] ]
  ELSE IF behaviour = "nullish"
  THEN [ route |-> "apiFetch", invoked |-> <<"fetch">>, outcome |-> CannotHandle ]
  ELSE [ route |-> "apiFetch", invoked |-> <<"fetch">>, outcome |-> OkResponse ]

NotServed ==
  [ request |-> NoRequest, behaviour |-> "none", route |-> "none", invoked |-> << >>,
    outcome |-> [ kind |-> "none", status |-> 0, message |-> NoMessage ] ]

\* the runtime constructs the actor: const api = durable(state, env)
CreateActor(hasFetch, hasAlarm) ==
  /\ api = NoApi
  /\ api' = ApiObject(hasFetch, hasAlarm)
  /\ UNCHANGED <<served, stubVars, probe, resolverVars, wsVars>>

\* the fetch createDurable returns, run on one inbound request
ActorFetch(request, behaviour) ==
  /\ api # NoApi
  /\ served' = [ request |-> request, behaviour |-> behaviour ] @@
               ( IF IsInternal(request)
                 THEN RouterHandle(api, request, behaviour)
                 ELSE ExternalHandle(api, request, behaviour) )
  /\ UNCHANGED <<api, stubVars, probe, resolverVars, wsVars>>

----------------------------------------------------------------------------
(* Instance resolver: the function getDurableGet returns *)

\* a string of n copies of character ch
Repeat(ch, n) == [ i \in 1..n |-> ch ]

\* the id argument: absent, a string, or a DurableObjectId
NoId == [ kind |-> "undefined", s |-> << >> ]

IdArguments ==
  { NoId, [ kind |-> "id", s |-> <<"object">> ] }
  \cup { [ kind |-> "string", s |-> Repeat(ch, n) ] :
           ch \in {"a", "f"}, n \in {0, 1, 32, 63, 64, 65} }

GetOptions == { "undefined", "weur", "enam" }

\* !id: undefined and the empty string are falsy
Falsy(id) == id.kind = "undefined" \/ (id.kind = "string" /\ Len(id.s) = 0)

\* the id handed to the namespace's own get, and the namespace calls made
ResolveId(id, n) ==
  IF Falsy(id) THEN [ via |-> "newUniqueId", s |-> << >>, n |-> n ]
  ELSE IF id.kind = "string"
  THEN IF Len(id.s) = 64
       THEN [ via |-> "idFromString", s |-> id.s, n |-> 0 ]
       ELSE [ via |-> "idFromName", s |-> id.s, n |-> 0 ]
  ELSE [ via |-> "asGiven", s |-> id.s, n |-> 0 ]

NotResolved ==
  [ given |-> NoId, options |-> "undefined",
    id |-> [ via |-> "none", s |-> << >>, n |-> 0 ], passedOptions |-> "undefined" ]

\* the binding as the runtime hands it over: get is the namespace's own get,
\* with no resolver around it and no marker on it
NativeNamespace == [ getLayers |-> 0, extended |-> FALSE ]

NoHandle == [ layers |-> 0, sendsPerAttempt |-> 0 ]

\* a call of fetch on a handle under the given number of Proxy layers: each
\* layer's methods.fetch calls fetch of what it wraps, once, down to the
\* transport handle's own fetch
RECURSIVE NativeSends(_)
NativeSends(layers) == IF layers = 0 THEN 1 ELSE NativeSends(layers - 1)

\* the function getDurableGet(namespace) returns, called with (id, options):
\* get is the namespace.get found when getDurableGet ran, so the handle comes
\* back under that get's layers and one more Proxy; an inner resolver is
\* handed the id object the outer one resolved and passes it on as given
ResolvedGet(getLayers, id, options) ==
  /\ Falsy(id) => minted < MaxMinted
  /\ LET rid == ResolveId(id, minted + 1) IN
       /\ resolved' = [ given |-> id, options |-> options, id |-> rid,
                        passedOptions |-> options ]
       /\ minted' = IF rid.via = "newUniqueId" THEN minted + 1 ELSE minted
       /\ uniqueUsed' = IF resolved.id.via = "newUniqueId"
                        THEN uniqueUsed \cup { resolved.id.n } ELSE uniqueUsed
  /\ handle' = [ layers |-> getLayers + 1, sendsPerAttempt |-> NativeSends(getLayers + 1) ]

\* extendNamespace(namespace), which extendEnv runs on every namespace of env
\* and withDurables and createDurable run through extendEnv
ExtendNamespace ==
  /\ namespace' = IF ~ namespace.extended
                  THEN [ getLayers |-> namespace.getLayers + 1, extended |-> TRUE ]
                  ELSE namespace
  /\ UNCHANGED <<resolved, minted, uniqueUsed, handle>>
  /\ UNCHANGED <<stubVars, probe, routerVars, wsVars>>

\* namespace.get(id, options) after extension
ResolverGet(id, options) ==
  /\ namespace.getLayers >= 1
  /\ ResolvedGet(namespace.getLayers - 1, id, options)
  /\ UNCHANGED <<namespace, stubVars, probe, routerVars, wsVars>>

\* getDurable(namespace, id, options): getDurableGet(namespace)(id, options)
GetDurable(id, options) ==
  /\ ResolvedGet(namespace.getLayers, id, options)
  /\ UNCHANGED <<namespace, stubVars, probe, routerVars, wsVars>>

----------------------------------------------------------------------------
(* Tagged websocket layer: durableWS *)

\* A connection is known by its place in the registry: the runtime lists
\* accepted sockets in the order they were accepted.

Tags == { "x", "y" }

TagLists == SeqsUpTo(Tags, MaxTags)

\* the tags argument of sendTo and close: 'all' or a list of tags
Targets ==
  { [ all |-> TRUE, tags |-> << >> ] } \cup { [ all |-> FALSE, tags |-> t ] : t \in TagLists }

\* what getTags(request) returns: null or a list of tags
Classified ==
  { [ null |-> TRUE, tags |-> << >> ] }
  \cup { [ null |-> FALSE, tags |-> t ] : t \in { << >>, <<"x">>, <<"y">>, <<"x", "y">> } }

\* request.headers.get('Upgrade'): null when the header is absent
UpgradeHeaders == { "null", "websocket", "WebSocket" }

Range(q) == { q[i] : i \in 1..Len(q) }

RECURSIVE Flatten(_)
Flatten(qs) == IF Len(qs) = 0 THEN << >> ELSE Head(qs) \o Flatten(Tail(qs))

\* state.getWebSockets(tag): the accepted sockets carrying tag, in order
GetWebSockets(tag) ==
  LET Carries(i) == tag \in Range(registry[i].tags)
  IN  SelectSeq([ i \in 1..Len(registry) |-> i ], Carries)

\* state.getWebSockets(): every accepted socket
GetAllWebSockets == [ i \in 1..Len(registry) |-> i ]

\* tags === 'all' ? state.getWebSockets() : tags.flatMap(tag => state.getWebSockets(tag))
Selected(target) ==
  IF target.all THEN GetAllWebSockets
  ELSE Flatten([ i \in 1..Len(target.tags) |-> GetWebSockets(target.tags[i]) ])

\* w.send(message) throws once close() was called on w
SendThrows(w) == registry[w].state = "closing"

\* forEach(w => w.send(message)): the sockets sent to, up to the first throw
RECURSIVE SendEach(_)
SendEach(ws) ==
  IF Len(ws) = 0 THEN [ done |-> << >>, threw |-> FALSE ]
  ELSE IF SendThrows(Head(ws)) THEN [ done |-> << >>, threw |-> TRUE ]
  ELSE LET rest == SendEach(Tail(ws))
       IN  [ done |-> <<Head(ws)>> \o rest.done, threw |-> rest.threw ]

NoOp ==
  [ op |-> "none", header |-> "null", classifyCalled |-> FALSE,
    classified |-> [ null |-> TRUE, tags |-> << >> ], status |-> 0, client |-> 0,
    target |-> [ all |-> FALSE, tags |-> << >> ], message |-> "",
    done |-> << >>, threw |-> FALSE ]

\* cws.sendTo(tags, message)
SendTo(target, message) ==
  /\ LET r == SendEach(Selected(target)) IN
       lastOp' = [ NoOp EXCEPT !.op = "sendTo", !.target = target, !.message = message,
                               !.done = r.done, !.threw = r.threw ]
  /\ UNCHANGED <<registry, stubVars, probe, routerVars, resolverVars>>

\* cws.close(tags): close() on a socket already closing does nothing
Close(target) ==
  /\ lastOp' = [ NoOp EXCEPT !.op = "close", !.target = target, !.done = Selected(target) ]
  /\ registry' = [ i \in 1..Len(registry) |->
                     IF i \in Range(Selected(target))
                     THEN [ registry[i] EXCEPT !.state = "closing" ]
                     ELSE registry[i] ]
  /\ UNCHANGED <<stubVars, probe, routerVars, resolverVars>>

\* the runtime drops a connection whose close handshake finished
Disconnect(i) ==
  /\ i \in 1..Len(registry)
  /\ registry[i].state = "closing"
  /\ registry' = [ j \in 1..(Len(registry) - 1) |->
                     IF j < i THEN registry[j] ELSE registry[j + 1] ]
  /\ lastOp' = [ NoOp EXCEPT !.op = "disconnect" ]
  /\ UNCHANGED <<stubVars, probe, routerVars, resolverVars>>

\* upgradeHeader is 'websocket'
HeaderAccepted_AnyValue(header) == header # "null"

HeaderAccepted(header) == header # "null" /\ header = "websocket"

\* the handler upgrade(getTags) returns, run on a request; the server end of
\* the new WebSocketPair takes the next place in the registry and the
\* response carries the client end of the same pair
Upgrade(header, classified) ==
  /\ (HeaderAccepted(header) /\ ~ classified.null) => Len(registry) < MaxConns
  /\ IF ~ HeaderAccepted(header)
     THEN /\ lastOp' = [ NoOp EXCEPT !.op = "upgrade", !.header = header, !.status = 426 ]
          /\ UNCHANGED registry
     ELSE IF classified.null
     THEN /\ lastOp' = [ NoOp EXCEPT !.op = "upgrade", !.header = header,
                                     !.classifyCalled = TRUE, !.classified = classified,
                                     !.status = 400 ]
          /\ UNCHANGED registry
     ELSE /\ registry' = Append(registry,
                           [ tags |-> classified.tags, attachment |-> classified.tags,
                             state |-> "open" ])
          /\ lastOp' = [ NoOp EXCEPT !.op = "upgrade", !.header = header,
                                     !.classifyCalled = TRUE, !.classified = classified,
                                     !.status = 101, !.client = Len(registry) + 1 ]
  /\ UNCHANGED <<stubVars, probe, routerVars, resolverVars>>

Messages == { "hello" }

----------------------------------------------------------------------------
(* Specifications *)

Init ==
  /\ methods = InitialMethods
  /\ nextFn = 1
  /\ lastGet = NoGet
  /\ firstGet = [ p \in PropNames |-> NoGet ]
  /\ calls = [ c \in CallIds |-> IdleCall ]
  /\ probe = NoProbe
  /\ api = NoApi
  /\ served = NotServed
  /\ resolved = NotResolved
  /\ minted = 0
  /\ uniqueUsed = {}
  /\ namespace = NativeNamespace
  /\ handle = NoHandle
  /\ registry = << >>
  /\ lastOp = NoOp

\* one logical call followed through every input and transport outcome
Next ==
  \/ \E prop \in PropNames : ReadProperty(prop)
  \/ \E prop \in PropNames, content \in ArgLists : StubCall(1, prop, content)
  \/ \E request \in RawRequests : StubFetchPassthrough(1, request)
  \/ \E response \in Responses : SendResolves(1, response)
  \/ \E err \in SendErrors : SendRejects(1, err)
  \/ TimerFires(1)

Spec == Init /\ [][Next]_vars

PolicyNext == \E err \in Errors, retries \in 0..MaxProbe : Probe(err, retries)

SpecPolicy == Init /\ [][PolicyNext]_vars

\* the method names call c may be for: the last call may take another name
\* than the calls before it
ConcProps(c) == IF c = NumCalls THEN {"add", "increment"} ELSE {"add"}

\* NumCalls calls in flight together on one stub, for the same method or
\* for different ones, their sends and timers interleaved in every order
ConcNext ==
  \E c \in CallIds :
    \/ \E prop \in ConcProps(c) : StubCall(c, prop, <<"n1">>)
    \/ SendResolves(c, "json")
    \/ \E err \in {"lost", "denied"} : SendRejects(c, err)
    \/ TimerFires(c)

SpecConc == Init /\ [][ConcNext]_vars

\* the transport settles the send call c is waiting for
SendSettles(c) ==
  \/ \E response \in Responses : SendResolves(c, response)
  \/ \E err \in SendErrors : SendRejects(c, err)

\* one logical call, every transport outcome
LiveNext ==
  \/ StubCall(1, "add", <<"n1">>)
  \/ \E request \in RawRequests : StubFetchPassthrough(1, request)
  \/ SendSettles(1)
  \/ TimerFires(1)

\* every send the transport was handed settles and every timer set fires
SpecLive ==
  /\ Init
  /\ [][LiveNext]_vars
  /\ WF_vars(SendSettles(1))
  /\ WF_vars(TimerFires(1))

RouterNext ==
  \/ \E hasFetch \in BOOLEAN, hasAlarm \in BOOLEAN : CreateActor(hasFetch, hasAlarm)
  \/ \E request \in InboundRequests, behaviour \in Behaviours : ActorFetch(request, behaviour)

SpecRouter == Init /\ [][RouterNext]_vars

ResolverNext ==
  \/ ExtendNamespace
  \/ \E id \in IdArguments, options \in GetOptions : ResolverGet(id, options)
  \/ \E id \in IdArguments, options \in GetOptions : GetDurable(id, options)

SpecResolver == Init /\ [][ResolverNext]_vars

WsNext ==
  \/ \E header \in UpgradeHeaders, classified \in Classified : Upgrade(header, classified)
  \/ \E target \in Targets, message \in Messages : SendTo(target, message)
  \/ \E target \in Targets : Close(target)
  \/ \E i \in 1..MaxConns : Disconnect(i)

SpecWs == Init /\ [][WsNext]_vars

----------------------------------------------------------------------------
(* Claims about the stub *)

\* the errors of Errors whose text holds one of the four transient patterns
Transient == { "lost", "transient", "reset", "updated", "lostInTypeError" }

\* C1 as stated: a call whose every send rejects with a transient error
\* makes at most 11 sends, the first included, and never a 12th.
C1_AtMostElevenSends ==
  \A c \in CallIds : calls[c].kind = "rpc" => Len(calls[c].wire) <= 11

\* C1 amended: such a call makes at most 12 sends (the first and 11 retries);
\* when the 12th fails no timer is set and the call rejects; never a 13th.
C1_AtMostTwelveSends ==
  \A c \in CallIds : calls[c].kind = "rpc" =>
    /\ Len(calls[c].wire) <= 12
    /\ Len(calls[c].wire) = calls[c].retries + 1
    /\ calls[c].pc = "backoff" => Len(calls[c].wire) <= 11
    /\ (calls[c].pc = "rejected" /\ calls[c].err \in Transient) => Len(calls[c].wire) = 12

C1_Witness ==
  \E c \in CallIds :
    /\ calls[c].kind = "rpc"
    /\ calls[c].pc = "rejected"
    /\ calls[c].reason \in Transient
    /\ Len(calls[c].wire) = 12

\* C2: shouldRetry(e, n) is true exactly when the text of e holds one of the
\* four transient patterns and n <= 10; false from n = 11 on and false for
\* every other error at every n.
C2_ShouldRetryTable ==
  probe.err # "none" =>
    /\ probe.answer = (probe.err \in Transient /\ probe.retries <= 10)
    /\ probe.retries >= 11 => ~ probe.answer
    /\ probe.err \notin Transient => ~ probe.answer

C2_Witness ==
  /\ probe.err = "lostInTypeError"
  /\ probe.retries = 10
  /\ probe.answer

\* C3: a call that rejects rejects with the very error of its most recent
\* failed send; once a send failed with a non-transient error the call is
\* rejected and sends no more.
C3_RejectsWithOriginalError ==
  \A c \in CallIds :
    /\ calls[c].pc = "rejected" => calls[c].reason = calls[c].err
    /\ calls[c].err \notin Transient \cup {"none"} =>
         /\ calls[c].pc = "rejected"
         /\ calls[c].reason = calls[c].err
         /\ Len(calls[c].wire) = calls[c].retries + 1

C3_Witness ==
  \E c \in CallIds :
    /\ calls[c].kind = "rpc"
    /\ calls[c].pc = "rejected"
    /\ calls[c].reason = "denied"
    /\ calls[c].retries = 2

\* C4: stub.m(...args), m neither fetch nor on the handle, whose first send
\* resolves, issued exactly one request: POST, the internal prefix followed
\* by m, content type application/json, body the encoded args in order.
C4_OneEncodedRequest ==
  \A c \in CallIds :
    (calls[c].kind = "rpc" /\ calls[c].retries = 0) =>
      /\ calls[c].prop \notin {"fetch"} \cup HandleOwn \cup ObjectPrototype
      /\ Len(calls[c].wire) = 1
      /\ calls[c].wire[1].method = "POST"
      /\ calls[c].wire[1].url = <<"https:", "//", "durable", "/", calls[c].prop>>
      /\ calls[c].wire[1].contentType = "application/json"
      /\ Len(calls[c].wire[1].body) = Len(calls[c].content)
      /\ \A i \in 1..Len(calls[c].content) :
           calls[c].wire[1].body[i] = JsonElement(calls[c].content[i])

C4_Witness ==
  \E c \in CallIds :
    /\ calls[c].kind = "rpc"
    /\ calls[c].pc = "resolved"
    /\ calls[c].retries = 0
    /\ calls[c].prop = "add"
    /\ calls[c].content = <<"n1", "undef">>
    /\ calls[c].wire = << [ url |-> <<"https:", "//", "durable", "/", "add">>,
                            method |-> "POST", contentType |-> "application/json",
                            body |-> <<"1", "null">> ] >>

\* C5: every access of an unknown name returns the invoker its first access
\* created; a memo entry is never replaced or removed; the fetch entry
\* forwards the caller's request unchanged to the handle's own fetch, once.
C5_StableInvokers ==
  /\ lastGet.kind = "rpc" => lastGet = firstGet[lastGet.prop]
  /\ \A p \in PropNames :
       firstGet[p] # NoGet => (p \in DOMAIN methods /\ methods[p] = firstGet[p])
  /\ "fetch" \in DOMAIN methods /\ methods["fetch"].kind = "passthrough"
  /\ lastGet.prop = "fetch" => lastGet.kind = "passthrough"
  /\ \A c \in CallIds :
       calls[c].prop = "fetch" =>
         /\ calls[c].kind = "passthrough"
         /\ Len(calls[c].wire) = 1
         /\ calls[c].wire[1] \in RawRequests

C5_Witness ==
  /\ nextFn = 3
  /\ lastGet.kind = "rpc"
  /\ lastGet.fn = 1
  /\ \E c \in CallIds : calls[c].kind = "passthrough" /\ calls[c].pc = "resolved"

----------------------------------------------------------------------------
(* Claims about the actor-side router *)

\* the request's URL is 'https://durable/' followed by exactly one segment
OneSegmentInternal(request) ==
  /\ Len(request.url) = 5
  /\ SubSeq(request.url, 1, 4) = <<"https:", "//", "durable", "/">>
  /\ request.url[5] # "/"

\* C6: an internal POST whose method name the api object does not have (own
\* or inherited) or holds as a non-callable value gets a status-500 error
\* response whose message names the method, and no function of the api
\* object is invoked for it.
C6_MissingMethodIs500 ==
  ( /\ served.route # "none"
    /\ served.request.method = "POST"
    /\ OneSegmentInternal(served.request)
    /\ \/ served.request.url[5] \notin api.functions \cup api.data \cup ObjectPrototype
       \/ served.request.url[5] \in api.data )
  => /\ served.outcome.kind = "response"
     /\ served.outcome.status = 500
     /\ \E i \in 1..Len(served.outcome.message) :
          served.outcome.message[i] = served.request.url[5]
     /\ served.invoked = << >>

C6_Witness ==
  /\ served.request.method = "POST"
  /\ served.request.url = <<"https:", "//", "durable", "/", "missing">>
  /\ served.request.body = <<"1", "null">>
  /\ served.outcome.status = 500
  /\ served.outcome.message = <<"Durable Object does not contain method ", "missing", "()">>

\* C10: a request is routed as internal exactly when its URL starts with
\* 'https://durable/'; any other request goes to the actor's own fetch when
\* the api object has one and else gets the fixed status-500 response; an
\* external request invokes no function of the api object but fetch.
C10_InternalIffPrefix ==
  served.route # "none" =>
    LET internal == /\ Len(served.request.url) >= 4
                    /\ SubSeq(served.request.url, 1, 4) = <<"https:", "//", "durable", "/">>
    IN  /\ (served.route = "router") <=> internal
        /\ (~ internal /\ "fetch" \in api.functions) =>
             (served.route = "apiFetch" /\ served.invoked = <<"fetch">>)
        /\ (~ internal /\ "fetch" \notin api.functions) =>
             /\ served.route = "fixed500"
             /\ served.outcome =
                  [ kind |-> "response", status |-> 500,
                    message |-> <<"Durable Object cannot handle request">> ]
             /\ served.invoked = << >>
        /\ ~ internal => \A i \in 1..Len(served.invoked) : served.invoked[i] = "fetch"

C10_Witness ==
  /\ served.request.url = <<"http:", "//", "durable", "/", "add">>
  /\ served.request.method = "POST"
  /\ "fetch" \in api.functions
  /\ served.route = "apiFetch"
  /\ served.invoked = <<"fetch">>
  /\ served.outcome.status = 200

----------------------------------------------------------------------------
(* Claims about the resolver *)

\* C7 as stated: no identifier mints a fresh unique id on each call; a string
\* of length exactly 64 is parsed with idFromString; every other string, of
\* any other length, is derived with idFromName; an id object is passed on
\* unchanged.
C7_ResolvesByKind ==
  resolved.id.via # "none" =>
    /\ resolved.given.kind = "undefined" =>
         /\ resolved.id.via = "newUniqueId"
         /\ resolved.id.n \notin uniqueUsed
    /\ (resolved.given.kind = "string" /\ Len(resolved.given.s) = 64) =>
         (resolved.id.via = "idFromString" /\ resolved.id.s = resolved.given.s)
    /\ (resolved.given.kind = "string" /\ Len(resolved.given.s) # 64) =>
         (resolved.id.via = "idFromName" /\ resolved.id.s = resolved.given.s)
    /\ resolved.given.kind = "id" =>
         (resolved.id.via = "asGiven" /\ resolved.id.s = resolved.given.s)

----------------------------------------------------------------------------
(* Claims about the websocket layer *)

\* the connections of the registry carrying a tag of the target, or all
MatchedIds(target) ==
  { i \in 1..Len(registry) :
      target.all \/ \E t \in Range(target.tags) : t \in Range(registry[i].tags) }

\* C8 as stated: sendTo(T, msg) sends msg to every connection carrying a tag
\* of T and to no other, sendTo('all', msg) to every accepted connection, and
\* close invokes close on the same sets.
\* A connection on which close() was already called cannot take a message;
\* the statement is read for the connections still open.
C8_BroadcastReachesMatched ==
  /\ lastOp.op = "sendTo" =>
       /\ Range(lastOp.done) \subseteq MatchedIds(lastOp.target)
       /\ \A i \in 1..Len(registry) :
            (i \in MatchedIds(lastOp.target) /\ registry[i].state = "open")
              => i \in Range(lastOp.done)
  /\ lastOp.op = "close" => Range(lastOp.done) = MatchedIds(lastOp.target)

\* C9: every request to the upgrade handler gets one outcome: 426 without
\* 'Upgrade: websocket', getTags not called; 400 when getTags returns null;
\* else a connection accepted under exactly the returned tags, the same tags
\* as its attachment, and 101 with the client end.  After 426 and 400 the
\* registry is as before.
C9_UpgradeOutcomes ==
  [][ lastOp'.op = "upgrade" =>
        /\ lastOp'.status \in {426, 400, 101}
        /\ lastOp'.header # "websocket" =>
             /\ lastOp'.status = 426
             /\ ~ lastOp'.classifyCalled
             /\ registry' = registry
        /\ (lastOp'.header = "websocket" /\ lastOp'.classified.null) =>
             /\ lastOp'.status = 400
             /\ registry' = registry
        /\ (lastOp'.header = "websocket" /\ ~ lastOp'.classified.null) =>
             /\ lastOp'.status = 101
             /\ lastOp'.classifyCalled
             /\ Len(registry') = Len(registry) + 1
             /\ SubSeq(registry', 1, Len(registry)) = registry
             /\ registry'[Len(registry')].tags = lastOp'.classified.tags
             /\ registry'[Len(registry')].attachment = lastOp'.classified.tags
             /\ registry'[Len(registry')].state = "open"
             /\ lastOp'.client = Len(registry')
    ]_vars

C9_Witness ==
  /\ lastOp.op = "upgrade"
  /\ lastOp.status = 101
  /\ lastOp.classified.tags = <<"x", "y">>
  /\ Len(registry) = 2
  /\ registry[2].tags = <<"x", "y">>
  /\ registry[2].attachment = <<"x", "y">>
  /\ lastOp.client = 2

----------------------------------------------------------------------------
(* Further claims about the actor-side router *)

\* C11 as stated: for every request to the actor-side fetch, internal or
\* external, an error thrown by the actor's own code never leaves fetch: the
\* request is answered by an error response carrying the error's status, or
\* 500 when it has none, and the error's message.
C11_ActorErrorsConverted ==
  ( /\ served.route # "none"
    /\ served.behaviour = "throws"
    /\ served.invoked # << >> )
  => /\ served.outcome.kind = "response"
     /\ served.outcome.status =
          (IF ActorError.status # 0 THEN ActorError.status ELSE 500)
     /\ served.outcome.message = ActorError.message

\* C12 as stated: for every internal request, whatever method name it
\* carries, the router does not invoke the actor's alarm handler.
C12_AlarmNotRoutable ==
  ( /\ served.route = "router"
    /\ StartsWith(served.request.url, URL) )
  => \A i \in 1..Len(served.invoked) : served.invoked[i] # "alarm"

\* C19 as stated: for every request whose URL starts with the internal
\* prefix, whatever its HTTP method and path shape, fetch resolves to a
\* response object and never to no value.
C19_InternalAlwaysAnswered ==
  ( /\ served.route # "none"
    /\ StartsWith(served.request.url, URL) )
  => served.outcome.kind = "response"

----------------------------------------------------------------------------
(* Further claims about the resolver *)

\* C13 as stated: after any sequence of extendEnv, withDurables,
\* createDurable, namespace.get and getDurable calls on one namespace, every
\* handle returned is the transport handle under exactly one Proxy layer,
\* never a Proxy around a Proxy, and one remote method call on it reaches the
\* transport handle's send exactly once per attempt.
C13_OneProxyLayer ==
  handle # NoHandle =>
    /\ handle.layers = 1
    /\ handle.sendsPerAttempt = 1

----------------------------------------------------------------------------
(* Further claims about the websocket layer *)

\* C14 as stated: during sendTo (and likewise close), a send that fails on
\* one connection is skipped: the broadcast itself does not fail and every
\* other matched connection still gets the message.
C14_FailedSendSkipped ==
  lastOp.op \in {"sendTo", "close"} =>
    /\ ~ lastOp.threw
    /\ \A i \in MatchedIds(lastOp.target) :
         (lastOp.op = "sendTo" /\ ~ SendThrows(i)) => i \in Range(lastOp.done)

\* how many times connection w was sent to (or closed) by the last operation
TimesDone(w) == Cardinality({ k \in 1..Len(lastOp.done) : lastOp.done[k] = w })

\* C20 as stated: one sendTo(T, msg) sends msg exactly once to each matched
\* connection, also when a connection carries several tags of T or T lists
\* a tag more than once; likewise one close(T) closes each matched
\* connection once.  Read for registries in which no send can throw.
C20_EachMatchedOnce ==
  ( /\ lastOp.op \in {"sendTo", "close"}
    /\ \A i \in 1..Len(registry) : lastOp.op = "sendTo" => ~ SendThrows(i) )
  => \A i \in 1..Len(registry) :
       TimesDone(i) = (IF i \in MatchedIds(lastOp.target) THEN 1 ELSE 0)

----------------------------------------------------------------------------
(* Further claims about the stub *)

\* what the three-tier decoding may give: the parsed JSON, else the raw
\* text, else the response itself
DecodedValues ==
  { [ kind |-> "parsed", v |-> "{\"ok\":true}" ],
    [ kind |-> "parsed", v |-> "{\"status\":500,\"error\":\"Network connection lost\"}" ],
    [ kind |-> "text", v |-> "plain text" ],
    [ kind |-> "response", v |-> "unreadable" ] }

\* C15: only a rejected send reaches the retry policy.  A send that resolves
\* with a response, whatever it carries, resolves the call with the decoded
\* value (parsed, else raw text, else the response), never rejects it, and
\* the call sends nothing more afterwards.
C15_ResponseSettlesCall ==
  [][ \A c \in CallIds :
        /\ (calls[c].kind = "rpc" /\ calls[c].pc = "sending" /\ calls'[c].pc = "resolved") =>
             /\ calls'[c].value \in DecodedValues
             /\ calls'[c].reason = "none"
             /\ calls'[c].wire = calls[c].wire
             /\ calls'[c].retries = calls[c].retries
        /\ (calls[c].pc = "sending" /\ calls'[c].pc \in {"backoff", "rejected"}) =>
             (calls'[c].err \in SendErrors /\ calls'[c].value = NoValue)
        /\ calls[c].pc = "resolved" => calls'[c] = calls[c]
    ]_vars

C15_Witness ==
  \E c \in CallIds :
    /\ calls[c].kind = "rpc"
    /\ calls[c].pc = "resolved"
    /\ calls[c].retries = 1
    /\ Len(calls[c].wire) = 2
    /\ calls[c].value =
         [ kind |-> "parsed", v |-> "{\"status\":500,\"error\":\"Network connection lost\"}" ]

\* the delays in milliseconds after failed attempts 0, 1, ..., 10
DelayTable == <<10, 20, 40, 80, 160, 320, 640, 1280, 2560, 5120, 10240>>

C17_EveryCallSettles ==
  \A c \in CallIds :
    (calls[c].pc \in {"sending", "backoff"}) ~> (calls[c].pc \in {"resolved", "rejected"})

C17_Witness ==
  /\ calls[1].kind = "rpc"
  /\ calls[1].pc = "rejected"
  /\ calls[1].retries = 11
  /\ Len(calls[1].wire) = 12

\* C18: retry state is per call.  A step of one call leaves every other call
\* as it was; each call starts at attempt 0; its count grows by 1 only when
\* its own timer fires after its own transient failure; its delay and its
\* rejection follow from its own count alone.
C18_PerCallRetryState ==
  [][ \A c \in CallIds :
        /\ calls'[c] # calls[c] =>
             \A d \in CallIds \ {c} : calls'[d] = calls[d]
        /\ (calls[c].pc = "idle" /\ calls'[c].pc # "idle") =>
             (calls'[c].retries = 0 /\ Len(calls'[c].wire) = 1)
        /\ calls'[c].retries # calls[c].retries =>
             /\ calls[c].pc = "backoff"
             /\ calls[c].err \in Transient
             /\ calls'[c].retries = calls[c].retries + 1
        /\ (calls[c].pc = "sending" /\ calls'[c].pc = "backoff") =>
             /\ calls'[c].err \in Transient
             /\ calls'[c].delay = DelayTable[calls[c].retries + 1]
        /\ (calls[c].pc = "sending" /\ calls'[c].pc = "rejected") =>
             (calls'[c].err \in Transient => calls[c].retries = 11)
    ]_vars

C18_Witness ==
  /\ calls[1].pc = "backoff"
  /\ calls[1].retries = 2
  /\ calls[1].delay = 40
  /\ calls[2].pc = "backoff"
  /\ calls[2].retries = 0
  /\ calls[2].delay = 10
  /\ calls[2].prop = "increment"

====
